---- MODULE Spec2Model ----
(***************************************************************************)
(* byteutils: hex / UTF-8 codec (lib.rs) and string utilities (string.rs). *)
(*                                                                         *)
(* Every function of the library is pure.  A text (Rust &str / String) is  *)
(* a sequence of Unicode scalar values (code points); its in-memory form   *)
(* is the UTF-8 encoding as_bytes(text).  A byte sequence is a sequence    *)
(* of numbers in 0..255.  The state machine draws the arguments of one     *)
(* call in Init and one action per library function applies it.            *)
(***************************************************************************)
EXTENDS Integers, Sequences, FiniteSets, TLC

VARIABLES pc, kind, op, bytes, text, word, ret,
          value, map, order, vec, vec0, at, idx, calls

vars == <<pc, kind, op, bytes, text, word, ret,
          value, map, order, vec, vec0, at, idx, calls>>

(***************************************************************************)
(* Bounds of the explored argument sets.                                   *)
(***************************************************************************)
MaxByteLen == 3
MaxHexLen == 4
MaxStrLen == 2
MaxCsvLen == 5
MaxSqlLen == 4
MaxSrcLen == 4
MaxWordLen == 2
MaxTplPieces == 5
MaxValLen == 3
MaxMapSize == 2
MaxMapTplPieces == 3
MaxVecLen == 4
MaxCalls == 2

\* All sequences over S of length 0..n.
SeqsUpTo(S, n) == UNION {[1..k -> S] : k \in 0..n}

\* Byte values used in the longer byte sequences (every single byte value
\* 0..255 is explored as a one-element sequence as well).
SampleBytes == {0, 9, 15, 16, 65, 127, 128, 169, 195, 255}

Byte == 0..255

ByteSeqs == SeqsUpTo(SampleBytes, MaxByteLen) \cup {<<b>> : b \in Byte}

\* '0' '3' '9' 'a' 'c' 'f' 'F' 'g' '+' '-' U+00E9 (2 bytes) U+20AC (3 bytes)
HexChars == {48, 51, 57, 97, 99, 102, 70, 103, 43, 45, 233, 8364}

HexTexts == SeqsUpTo(HexChars, MaxHexLen)

\* code points at every boundary of the UTF-8 length classes
StrChars == {0, 97, 127, 128, 233, 2047, 2048, 8364, 55295, 57344, 65535,
             65536, 129408, 1114111}

StrTexts == SeqsUpTo(StrChars, MaxStrLen)

(***************************************************************************)
(* Result<T, String>, and the abort of the call by a panic.                *)
(***************************************************************************)
Ok(v) == [tag |-> "Ok", val |-> v, err |-> ""]

Err(e) == [tag |-> "Err", val |-> <<>>, err |-> e]

Panic(m) == [tag |-> "Panic", val |-> <<>>, err |-> m]

ErrOddLength == "Hex string must have an even number of characters"

ErrInvalidHex == "Invalid hex string: "

ErrInvalidUtf8 == "Invalid UTF-8 sequence"

(***************************************************************************)
(* UTF-8: str::as_bytes and String::from_utf8.                             *)
(***************************************************************************)
\* the UTF-8 encoding of one scalar value
Utf8Encode(c) ==
    IF c < 128 THEN <<c>>
    ELSE IF c < 2048 THEN <<192 + (c \div 64), 128 + (c % 64)>>
    ELSE IF c < 65536
        THEN <<224 + (c \div 4096), 128 + ((c \div 64) % 64), 128 + (c % 64)>>
    ELSE <<240 + (c \div 262144), 128 + ((c \div 4096) % 64),
           128 + ((c \div 64) % 64), 128 + (c % 64)>>

RECURSIVE as_bytes(_)
as_bytes(s) ==
    IF s = <<>> THEN <<>> ELSE Utf8Encode(Head(s)) \o as_bytes(Tail(s))

IsCont(b) == b \in 128..191

\* Length of the well-formed UTF-8 sequence that starts at b[i], 0 if none.
Utf8SeqLen(b, i) ==
    LET n == Len(b)
        b0 == b[i]
    IN  IF b0 < 128 THEN 1
        ELSE IF b0 \in 194..223
            THEN IF i + 1 <= n /\ IsCont(b[i+1]) THEN 2 ELSE 0
        ELSE IF b0 \in 224..239
            THEN IF /\ i + 2 <= n
                    /\ IF b0 = 224 THEN b[i+1] \in 160..191
                       ELSE IF b0 = 237 THEN b[i+1] \in 128..159
                       ELSE IsCont(b[i+1])
                    /\ IsCont(b[i+2])
                 THEN 3 ELSE 0
        ELSE IF b0 \in 240..244
            THEN IF /\ i + 3 <= n
                    /\ IF b0 = 240 THEN b[i+1] \in 144..191
                       ELSE IF b0 = 244 THEN b[i+1] \in 128..143
                       ELSE IsCont(b[i+1])
                    /\ IsCont(b[i+2])
                    /\ IsCont(b[i+3])
                 THEN 4 ELSE 0
        ELSE 0

\* the scalar value of the well-formed sequence of length k at b[i]
Utf8Scalar(b, i, k) ==
    IF k = 1 THEN b[i]
    ELSE IF k = 2 THEN (b[i] - 192) * 64 + (b[i+1] - 128)
    ELSE IF k = 3
        THEN (b[i] - 224) * 4096 + (b[i+1] - 128) * 64 + (b[i+2] - 128)
    ELSE (b[i] - 240) * 262144 + (b[i+1] - 128) * 4096
         + (b[i+2] - 128) * 64 + (b[i+3] - 128)

RECURSIVE Utf8DecodeFrom(_, _, _)
Utf8DecodeFrom(b, i, acc) ==
    IF i > Len(b) THEN Ok(acc)
    ELSE LET k == Utf8SeqLen(b, i)
         IN  IF k = 0 THEN Err(ErrInvalidUtf8)
             ELSE Utf8DecodeFrom(b, i + k, Append(acc, Utf8Scalar(b, i, k)))

\* String::from_utf8 / str::from_utf8: the text, or the Utf8Error
from_utf8(b) == Utf8DecodeFrom(b, 1, <<>>)

(***************************************************************************)
(* lib.rs                                                                  *)
(***************************************************************************)
LowerHexDigit(d) == IF d < 10 THEN 48 + d ELSE 87 + d

UpperHexDigit(d) == IF d < 10 THEN 48 + d ELSE 55 + d

\* mutants of the formatting: no zero padding ("{:x}"), upper case ("{:02X}")
FormatHexNoPad(byte) ==
    IF byte < 16 THEN <<LowerHexDigit(byte)>>
    ELSE <<LowerHexDigit(byte \div 16), LowerHexDigit(byte % 16)>>

FormatHexUpper(byte) ==
    <<UpperHexDigit(byte \div 16), UpperHexDigit(byte % 16)>>

\* format!("{:02x}", byte)
FormatHex02x(byte) ==
    <<LowerHexDigit(byte \div 16), LowerHexDigit(byte % 16)>>

RECURSIVE bytes_to_hex(_)
bytes_to_hex(bs) ==
    IF bs = <<>> THEN <<>>
    ELSE FormatHex02x(Head(bs)) \o bytes_to_hex(Tail(bs))

\* char::to_digit(16) on one byte of the chunk; -1 when it is no digit
ToDigit16(b) ==
    IF b \in 48..57 THEN b - 48
    ELSE IF b \in 97..102 THEN b - 87
    ELSE IF b \in 65..70 THEN b - 55
    ELSE -1

RECURSIVE RadixDigits(_, _, _)
RadixDigits(ds, i, acc) ==
    IF i > Len(ds) THEN Ok(acc)
    ELSE IF ToDigit16(ds[i]) < 0 THEN Err("invalid digit found in string")
    ELSE IF acc * 16 + ToDigit16(ds[i]) > 255
        THEN Err("number too large to fit in target type")
    ELSE RadixDigits(ds, i + 1, acc * 16 + ToDigit16(ds[i]))

\* u8::from_str_radix(src, 16): an optional '+' sign, then the digits
u8_from_str_radix(src) ==
    IF src = <<>> THEN Err("cannot parse integer from empty string")
    ELSE IF src[1] \in {43, 45} /\ Len(src) = 1
        THEN Err("invalid digit found in string")
    ELSE IF src[1] = 43 THEN RadixDigits(Tail(src), 1, 0)
    ELSE RadixDigits(src, 1, 0)

\* the loop over hex.as_bytes().chunks(2), from chunk position i
RECURSIVE HexChunks(_, _, _)
HexChunks(b, i, acc) ==
    IF i > Len(b) THEN Ok(acc)
    ELSE LET chunk == SubSeq(b, i, i + 1)
         IN  IF from_utf8(chunk).tag # "Ok"
                 THEN Panic("called Result::unwrap() on an Err value")
             ELSE LET r == u8_from_str_radix(chunk)
                  IN  IF r.tag = "Err" THEN Err(ErrInvalidHex \o r.err)
                      ELSE HexChunks(b, i + 2, Append(acc, r.val))

hex_to_bytes(hex) ==
    IF Len(as_bytes(hex)) % 2 # 0 THEN Err(ErrOddLength)
    ELSE HexChunks(as_bytes(hex), 1, <<>>)

\* mutant: every byte becomes one char (bytes.iter().map(|b| b as char))
bytes_as_chars(bs) == Ok(bs)

bytes_to_string(bs) == from_utf8(bs)

string_to_bytes(s) == as_bytes(s)

string_to_hex(s) == bytes_to_hex(as_bytes(s))

\* mutant: a hex error is dropped (hex_to_bytes(hex).unwrap_or_default())
hex_to_string_lenient(hex) ==
    IF hex_to_bytes(hex).tag = "Ok" THEN bytes_to_string(hex_to_bytes(hex).val)
    ELSE IF hex_to_bytes(hex).tag = "Err" THEN bytes_to_string(<<>>)
    ELSE hex_to_bytes(hex)

hex_to_string(hex) ==
    LET r == hex_to_bytes(hex)
    IN  IF r.tag = "Ok" THEN bytes_to_string(r.val) ELSE r

(***************************************************************************)
(* string.rs                                                               *)
(***************************************************************************)
\* ',' ' ' TAB 'a' 'b' U+00A0 (no-break space)
CsvChars == {44, 32, 9, 97, 98, 160}

CsvTexts == SeqsUpTo(CsvChars, MaxCsvLen)

\* backslash, single quote, 'a', ' '
SqlChars == {92, 39, 97, 32}

SqlTexts == SeqsUpTo(SqlChars, MaxSqlLen)

\* 'a' 'A' '_' '.'
WordChars == {97, 65, 95, 46}

SrcTexts == SeqsUpTo(WordChars, MaxSrcLen)

WordTexts == SeqsUpTo(WordChars, MaxWordLen)

\* char::is_whitespace: the Unicode White_Space property
IsWhitespace(c) ==
    \/ c \in 9..13
    \/ c \in {32, 133, 160, 5760, 8232, 8233, 8239, 8287, 12288}
    \/ c \in 8192..8202

\* str::split(sep): the pieces between the separators, from position i on,
\* cur being the piece under construction
RECURSIVE SplitFrom(_, _, _, _, _)
SplitFrom(s, sep, i, cur, acc) ==
    IF i > Len(s) THEN Append(acc, cur)
    ELSE IF s[i] = sep THEN SplitFrom(s, sep, i + 1, <<>>, Append(acc, cur))
    ELSE SplitFrom(s, sep, i + 1, Append(cur, s[i]), acc)

split(s, sep) == SplitFrom(s, sep, 1, <<>>, <<>>)

RECURSIVE trim_start(_)
trim_start(s) ==
    IF s # <<>> /\ IsWhitespace(Head(s)) THEN trim_start(Tail(s)) ELSE s

RECURSIVE trim_end(_)
trim_end(s) ==
    IF s # <<>> /\ IsWhitespace(s[Len(s)])
        THEN trim_end(SubSeq(s, 1, Len(s) - 1))
    ELSE s

\* str::trim
trim(s) == trim_end(trim_start(s))

NonEmpty(s) == s # <<>>

\* mutant: the pieces are not trimmed at their end
to_array_trim_start(csv) ==
    SelectSeq([k \in 1..Len(split(csv, 44)) |-> trim_start(split(csv, 44)[k])],
              NonEmpty)

to_array(csv) ==
    SelectSeq([k \in 1..Len(split(csv, 44)) |-> trim(split(csv, 44)[k])],
              NonEmpty)

\* str::replace(from, to) for a one-character pattern
RECURSIVE replace(_, _, _)
replace(s, from, to) ==
    IF s = <<>> THEN <<>>
    ELSE (IF Head(s) = from THEN to ELSE <<Head(s)>>) \o replace(Tail(s), from, to)

\* mutant: the quote is escaped with a backslash, before the backslash pass
escape_sql_backslash_quote(input) ==
    replace(replace(input, 39, <<92, 39>>), 92, <<92, 92>>)

escape_sql(input) == replace(replace(input, 92, <<92, 92>>), 39, <<39, 39>>)

enclose_quotes(name) == <<39>> \o name \o <<39>>

\* the characters regex::escape puts a backslash before:
\* \ . + * ? ( ) | [ ] { } ^ $ # & - ~
RegexMeta == {92, 46, 43, 42, 63, 40, 41, 124, 91, 93, 123, 125, 94, 36, 35, 38, 45, 126}

RECURSIVE regex_escape(_)
regex_escape(s) ==
    IF s = <<>> THEN <<>>
    ELSE (IF Head(s) \in RegexMeta THEN <<92, Head(s)>> ELSE <<Head(s)>>)
         \o regex_escape(Tail(s))

\* Regex::new on the patterns the library builds: \b is the word-boundary
\* assertion, a backslash before a meta character makes it a literal, an
\* unescaped '.' matches any character but a line feed, any other
\* character is a literal.
RECURSIVE RegexItems(_, _, _)
RegexItems(p, i, acc) ==
    IF i > Len(p) THEN acc
    ELSE IF p[i] = 92 /\ i < Len(p)
        THEN IF p[i+1] = 98
                 THEN RegexItems(p, i + 2, Append(acc, [t |-> "boundary", c |-> 0]))
             ELSE RegexItems(p, i + 2, Append(acc, [t |-> "lit", c |-> p[i+1]]))
    ELSE IF p[i] = 46 THEN RegexItems(p, i + 1, Append(acc, [t |-> "any", c |-> 0]))
    ELSE RegexItems(p, i + 1, Append(acc, [t |-> "lit", c |-> p[i]]))

\* \w of the regex crate, on the characters below U+0080
IsWordChar(c) == c \in (48..57) \cup (65..90) \cup (97..122) \cup {95}

\* simple case folding, on the characters below U+0080
CaseFold(c) == IF c \in 65..90 THEN c + 32 ELSE c

\* \b between position pos and pos + 1 of s (pos in 0..Len(s))
WordBoundary(s, pos) ==
    (pos >= 1 /\ IsWordChar(s[pos])) # (pos < Len(s) /\ IsWordChar(s[pos + 1]))

\* do the items from k on match s from position pos (0-based offset) on
RECURSIVE MatchAt(_, _, _, _, _)
MatchAt(items, k, s, pos, icase) ==
    IF k > Len(items) THEN TRUE
    ELSE IF items[k].t = "boundary"
        THEN WordBoundary(s, pos) /\ MatchAt(items, k + 1, s, pos, icase)
    ELSE /\ pos < Len(s)
         /\ IF items[k].t = "any" THEN s[pos + 1] # 10
            ELSE IF icase THEN CaseFold(s[pos + 1]) = CaseFold(items[k].c)
            ELSE s[pos + 1] = items[k].c
         /\ MatchAt(items, k + 1, s, pos + 1, icase)

\* Regex::is_match
regex_is_match(items, s, icase) ==
    \E pos \in 0..Len(s) : MatchAt(items, 1, s, pos, icase)

\* format!(r"(?i)\b{}\b", regex::escape(word)); the flag group (?i) is the
\* icase argument
is_contain_word(src, w) ==
    regex_is_match(RegexItems(<<92, 98>> \o regex_escape(w) \o <<92, 98>>, 1, <<>>),
                   src, TRUE)

RECURSIVE Concat(_)
Concat(ps) == IF ps = <<>> THEN <<>> ELSE Head(ps) \o Concat(Tail(ps))

\* the pieces the explored templates are made of:  {{  }}  a  .  {{a a}}
PhPieces == {<<123, 123>>, <<125, 125>>, <<97>>, <<46>>,
             <<123, 123, 97, 32, 97, 125, 125>>}

PhTemplates == {Concat(ps) : ps \in SeqsUpTo(PhPieces, MaxTplPieces)}

\* placeholder names:  (empty)  a  'a a'  .  a.  }}{{  a}}  {{a
PhNames == {<<>>, <<97>>, <<97, 32, 97>>, <<46>>, <<97, 46>>,
            <<125, 125, 123, 123>>, <<97, 125, 125>>, <<123, 123, 97>>}

\* replacement values of the template runs:  (empty)  v
PhValues == {<<>>, <<118>>}

\* '$' '0' 'a' '{' '}' '&'
ValChars == {36, 48, 97, 123, 125, 38}

ValTexts == SeqsUpTo(ValChars, MaxValLen)

\* templates of the replacement-value runs:  {{a}}   x{{a}}{{a}}
ValTemplates == {<<123, 123, 97, 125, 125>>,
                 <<120, 123, 123, 97, 125, 125, 123, 123, 97, 125, 125>>}

\* the characters of a capture-group name in a replacement: [0-9A-Za-z_]
IsCapLetter(c) == c \in (48..57) \cup (65..90) \cup (97..122) \cup {95}

\* str::parse::<usize>() of a capture reference gives 0
ParsesAsZero(cap) ==
    LET ds == IF cap # <<>> /\ cap[1] = 43 THEN Tail(cap) ELSE cap
    IN  ds # <<>> /\ \A k \in 1..Len(ds) : ds[k] = 48

\* what a capture reference stands for: group 0 is the whole match, the
\* patterns of the library have no other group
CaptureText(cap, m) == IF ParsesAsZero(cap) THEN m ELSE <<>>

\* Captures::expand: $$ is a dollar, $name and ${name} are capture
\* references, a dollar before anything else is a dollar
RECURSIVE Expand(_, _, _, _)
Expand(r, k, m, acc) ==
    IF k > Len(r) THEN acc
    ELSE IF r[k] # 36 THEN Expand(r, k + 1, m, Append(acc, r[k]))
    ELSE IF k < Len(r) /\ r[k + 1] = 36 THEN Expand(r, k + 2, m, Append(acc, 36))
    ELSE IF k < Len(r) /\ r[k + 1] = 123
        THEN LET closing == {j \in (k + 2)..Len(r) : r[j] = 125}
             IN  IF closing = {} THEN Expand(r, k + 1, m, Append(acc, 36))
                 ELSE LET j == CHOOSE x \in closing : \A y \in closing : x <= y
                      IN  Expand(r, j + 1, m,
                                 acc \o CaptureText(SubSeq(r, k + 2, j - 1), m))
    ELSE LET stops == {j \in (k + 1)..(Len(r) + 1) :
                          j = Len(r) + 1 \/ ~IsCapLetter(r[j])}
             e == CHOOSE x \in stops : \A y \in stops : x <= y
         IN  IF e = k + 1 THEN Expand(r, k + 1, m, Append(acc, 36))
             ELSE Expand(r, e, m, acc \o CaptureText(SubSeq(r, k + 1, e - 1), m))

\* mutant: the value is inserted as it is (regex::NoExpand)
ReplacementNoExpand(r, m) == r

\* Replacer for &str: the replacement text of one match m
ReplacementText(r, m) == Expand(r, 1, m, <<>>)

\* number of characters a match of the items consumes
ItemsWidth(items) == Cardinality({k \in 1..Len(items) : items[k].t # "boundary"})

\* Regex::replace_all: the leftmost matches, none overlapping an earlier one
RECURSIVE ReplaceAllFrom(_, _, _, _, _)
ReplaceAllFrom(items, s, pos, r, acc) ==
    IF pos >= Len(s) THEN acc
    ELSE IF MatchAt(items, 1, s, pos, FALSE)
        THEN ReplaceAllFrom(items, s, pos + ItemsWidth(items), r,
                 acc \o ReplacementText(r, SubSeq(s, pos + 1, pos + ItemsWidth(items))))
    ELSE ReplaceAllFrom(items, s, pos + 1, r, Append(acc, s[pos + 1]))

regex_replace_all(items, s, r) == ReplaceAllFrom(items, s, 0, r, <<>>)

\* mutant: the name goes into the pattern without regex::escape
PlaceholderPatternRaw(name) == <<92, 123, 92, 123>> \o name \o <<125, 92, 125>>

\* mutant: every character of the name is a wildcard
PlaceholderPatternAnyName(name) ==
    <<92, 123, 92, 123>> \o [k \in 1..Len(name) |-> 46] \o <<125, 92, 125>>

\* format!(r"\{{\{{{}}}\}}", regex::escape(placeholder)):  \{\{ name }\}
PlaceholderPattern(name) ==
    <<92, 123, 92, 123>> \o regex_escape(name) \o <<125, 92, 125>>

replace_placeholder(input, placeholder, replacement) ==
    regex_replace_all(RegexItems(PlaceholderPattern(placeholder), 1, <<>>),
                      input, replacement)

\* keys of the explored mappings:  a  b  a}}{{b
MapKeys == {<<97>>, <<98>>, <<97, 125, 125, 123, 123, 98>>}

\* their values:  (empty)  v  {{b}}  {{
MapValues == {<<>>, <<118>>, <<123, 123, 98, 125, 125>>, <<123, 123>>}

\* HashMap<String, String>: a function from its keys to their values
Maps == UNION {[ks -> MapValues] : ks \in {K \in SUBSET MapKeys : Cardinality(K) <= MaxMapSize}}

\* pieces of the templates of these runs:  {{a}}  {{b}}  {{c}}  b}}  x
MapPieces == {<<123, 123, 97, 125, 125>>, <<123, 123, 98, 125, 125>>,
              <<123, 123, 99, 125, 125>>, <<98, 125, 125>>, <<120>>}

MapTemplates == {Concat(ps) : ps \in SeqsUpTo(MapPieces, MaxMapTplPieces)}

\* the orders in which iterating the HashMap can visit its entries
Orders(m) ==
    {o \in [1..Cardinality(DOMAIN m) -> DOMAIN m] :
        \A x, y \in 1..Cardinality(DOMAIN m) : x # y => o[x] # o[y]}

\* the for loop over the entries, from the k-th visited entry on
RECURSIVE ApplyEntries(_, _, _, _)
ApplyEntries(result, m, ord, k) ==
    IF k > Len(ord) THEN result
    ELSE ApplyEntries(replace_placeholder(result, ord[k], m[ord[k]]), m, ord, k + 1)

replace_multiple_placeholders(template, m, ord) == ApplyEntries(template, m, ord, 1)

(***************************************************************************)
(* vec.rs                                                                  *)
(***************************************************************************)
VecElems == 1..3

Vecs == SeqsUpTo(VecElems, MaxVecLen)

\* Vec::retain with the closure |e| uniques.insert(*e): an element stays
\* when the set did not hold it yet
RECURSIVE RetainInserted(_, _, _, _)
RetainInserted(v, k, uniques, acc) ==
    IF k > Len(v) THEN acc
    ELSE IF v[k] \in uniques THEN RetainInserted(v, k + 1, uniques, acc)
    ELSE RetainInserted(v, k + 1, uniques \cup {v[k]}, Append(acc, v[k]))

\* mutant: only a repetition of the element just before is dropped
\* (Vec::dedup of the standard library)
RECURSIVE DropAdjacent(_, _, _)
DropAdjacent(v, k, acc) ==
    IF k > Len(v) THEN acc
    ELSE IF k > 1 /\ v[k] = v[k - 1] THEN DropAdjacent(v, k + 1, acc)
    ELSE DropAdjacent(v, k + 1, Append(acc, v[k]))

dedup_adjacent(v) == DropAdjacent(v, 1, <<>>)

dedup(v) == RetainInserted(v, 1, {}, <<>>)

\* the loop of get_unique from the k-th item on
RECURSIVE GetUniqueFrom(_, _, _, _)
GetUniqueFrom(input, k, seen, result) ==
    IF k > Len(input) THEN result
    ELSE IF input[k] \notin seen
        THEN GetUniqueFrom(input, k + 1, seen \cup {input[k]}, Append(result, input[k]))
    ELSE GetUniqueFrom(input, k + 1, seen, result)

\* mutant: an item is pushed whenever the one before it differs
get_unique_adjacent(input) == DropAdjacent(input, 1, <<>>)

get_unique(input) == GetUniqueFrom(input, 1, {}, <<>>)

\* v.swap(i, j), indices from 0
Swap(v, i, j) == [v EXCEPT ![i + 1] = v[j + 1], ![j + 1] = v[i + 1]]

\* mutant: the loop runs over the whole vector
RevBoundFull(len) == len

\* the end of the range 0..len / 2
RevBound(len) == len \div 2

\* mutant: the bound check also rejects at = len
split_at_vec_strict(v, a) ==
    IF a >= Len(v) THEN Panic("index out of bounds")
    ELSE Ok(<<SubSeq(v, 1, a), SubSeq(v, a + 1, Len(v))>>)

split_at_vec(v, a) ==
    IF a > Len(v) THEN Panic("index out of bounds")
    ELSE Ok(<<SubSeq(v, 1, a), SubSeq(v, a + 1, Len(v))>>)

(***************************************************************************)
(* The calls.                                                             *)
(***************************************************************************)
Init ==
    /\ pc = "call"
    /\ op = "none"
    /\ ret = <<>>
    /\ map = <<>>
    /\ order = <<>>
    /\ at = 0
    /\ idx = 0
    /\ calls = 0
    /\ \/ kind = "bytes" /\ bytes \in ByteSeqs /\ text = <<>> /\ word = <<>> /\ value = <<>> /\ vec = <<>>
       \/ kind = "hex" /\ text \in HexTexts /\ bytes = <<>> /\ word = <<>> /\ value = <<>> /\ vec = <<>>
       \/ kind = "str" /\ text \in StrTexts /\ bytes = <<>> /\ word = <<>> /\ value = <<>> /\ vec = <<>>
       \/ kind = "csv" /\ text \in CsvTexts /\ bytes = <<>> /\ word = <<>> /\ value = <<>> /\ vec = <<>>
       \/ kind = "sql" /\ text \in SqlTexts /\ bytes = <<>> /\ word = <<>> /\ value = <<>> /\ vec = <<>>
       \/ kind = "word" /\ text \in SrcTexts /\ word \in WordTexts /\ bytes = <<>> /\ value = <<>> /\ vec = <<>>
       \/ kind = "ph" /\ text \in PhTemplates /\ word \in PhNames /\ value \in PhValues /\ bytes = <<>> /\ vec = <<>>
       \/ kind = "val" /\ text \in ValTemplates /\ word = <<97>> /\ value \in ValTexts /\ bytes = <<>> /\ vec = <<>>
       \/ kind = "map" /\ text \in MapTemplates /\ word = <<>> /\ value = <<>> /\ bytes = <<>> /\ vec = <<>>
       \/ kind = "vec" /\ vec \in Vecs /\ text = <<>> /\ word = <<>> /\ value = <<>> /\ bytes = <<>>
    /\ vec0 = vec

Return(f, r) ==
    /\ pc' = "done"
    /\ op' = f
    /\ ret' = r
    /\ UNCHANGED <<kind, bytes, text, word, value, map, order, vec, vec0, at, idx, calls>>

BytesToHex == pc = "call" /\ kind = "bytes" /\ Return("bytes_to_hex", bytes_to_hex(bytes))

HexToBytes == pc = "call" /\ kind = "hex" /\ Return("hex_to_bytes", hex_to_bytes(text))

BytesToString == pc = "call" /\ kind = "bytes" /\ Return("bytes_to_string", bytes_to_string(bytes))

StringToBytes == pc = "call" /\ kind = "str" /\ Return("string_to_bytes", string_to_bytes(text))

StringToHex == pc = "call" /\ kind = "str" /\ Return("string_to_hex", string_to_hex(text))

HexToString == pc = "call" /\ kind = "hex" /\ Return("hex_to_string", hex_to_string(text))

ToArray == pc = "call" /\ kind = "csv" /\ Return("to_array", to_array(text))

EscapeSql == pc = "call" /\ kind = "sql" /\ Return("escape_sql", escape_sql(text))

EncloseQuotes == pc = "call" /\ kind = "sql" /\ Return("enclose_quotes", enclose_quotes(text))

IsContainWord == pc = "call" /\ kind = "word" /\ Return("is_contain_word", is_contain_word(text, word))

ReplacePlaceholder ==
    /\ pc = "call"
    /\ kind \in {"ph", "val"}
    /\ Return("replace_placeholder", replace_placeholder(text, word, value))

\* the mapping is drawn here; the order is the one the iteration happens
\* to take
ReplaceMultiplePlaceholders ==
    /\ pc = "call"
    /\ kind = "map"
    /\ \E m \in Maps : \E o \in Orders(m) :
          /\ map' = m
          /\ order' = o
          /\ ret' = replace_multiple_placeholders(text, m, o)
    /\ pc' = "done"
    /\ op' = "replace_multiple_placeholders"
    /\ UNCHANGED <<kind, bytes, text, word, value, vec, vec0, at, idx, calls>>

\* dedup(&mut v): the vector is changed in place, nothing is returned
Dedup ==
    /\ pc = "call"
    /\ kind = "vec"
    /\ vec' = dedup(vec)
    /\ pc' = "done"
    /\ op' = "dedup"
    /\ UNCHANGED <<kind, bytes, text, word, ret, value, map, order, vec0, at, idx, calls>>

GetUnique == pc = "call" /\ kind = "vec" /\ Return("get_unique", get_unique(vec))

\* reverse_in_place is entered, for the first time or once more on the
\* vector the call before left: len is read and the loop starts at 0
ReverseCall ==
    /\ kind = "vec"
    /\ pc = "call" \/ (pc = "done" /\ op = "reverse_in_place")
    /\ calls < MaxCalls
    /\ pc' = "rev"
    /\ op' = "reverse_in_place"
    /\ idx' = 0
    /\ calls' = calls + 1
    /\ UNCHANGED <<kind, bytes, text, word, ret, value, map, order, vec, vec0, at>>

\* one turn of the loop: v.swap(i, len - 1 - i)
ReverseSwap ==
    /\ pc = "rev"
    /\ idx < RevBound(Len(vec))
    /\ vec' = Swap(vec, idx, Len(vec) - 1 - idx)
    /\ idx' = idx + 1
    /\ UNCHANGED <<pc, kind, op, bytes, text, word, ret, value, map, order, vec0, at, calls>>

\* the range is exhausted
ReverseReturn ==
    /\ pc = "rev"
    /\ idx >= RevBound(Len(vec))
    /\ pc' = "done"
    /\ UNCHANGED <<kind, op, bytes, text, word, ret, value, map, order, vec, vec0, at, idx, calls>>

SplitAtVec ==
    /\ pc = "call"
    /\ kind = "vec"
    /\ \E a \in 0..(MaxVecLen + 1) :
          /\ at' = a
          /\ ret' = split_at_vec(vec, a)
    /\ pc' = "done"
    /\ op' = "split_at_vec"
    /\ UNCHANGED <<kind, bytes, text, word, value, map, order, vec, vec0, idx, calls>>

Next ==
    \/ BytesToHex
    \/ HexToBytes
    \/ BytesToString
    \/ StringToBytes
    \/ StringToHex
    \/ HexToString
    \/ ToArray
    \/ EscapeSql
    \/ EncloseQuotes
    \/ IsContainWord
    \/ ReplacePlaceholder
    \/ ReplaceMultiplePlaceholders
    \/ Dedup
    \/ GetUnique
    \/ ReverseCall
    \/ ReverseSwap
    \/ ReverseReturn
    \/ SplitAtVec

Spec == Init /\ [][Next]_vars

(***************************************************************************)
(* Properties of the codec.                                                *)
(***************************************************************************)
Done(f) == pc = "done" /\ op = f

\* the sixteen digits, by value: "0123456789abcdef" and "0123456789ABCDEF"
LowerDigits == <<48, 49, 50, 51, 52, 53, 54, 55, 56, 57, 97, 98, 99, 100, 101, 102>>

UpperDigits == <<48, 49, 50, 51, 52, 53, 54, 55, 56, 57, 65, 66, 67, 68, 69, 70>>

IsHexDigit(c) == \E d \in 1..16 : c = LowerDigits[d] \/ c = UpperDigits[d]

HexValue(c) == (CHOOSE d \in 1..16 : c = LowerDigits[d] \/ c = UpperDigits[d]) - 1

IsHexText(s) == Len(s) % 2 = 0 /\ \A i \in 1..Len(s) : IsHexDigit(s[i])

ToUpper(s) == [i \in 1..Len(s) |-> IF s[i] \in 97..122 THEN s[i] - 32 ELSE s[i]]

ToLower(s) == [i \in 1..Len(s) |-> IF s[i] \in 65..90 THEN s[i] + 32 ELSE s[i]]

\* C1: decoding the hex text of any byte sequence gives Ok of that byte
\* sequence back (empty sequence and every byte value included).
C1_RoundTripBytes == Done("bytes_to_hex") => hex_to_bytes(ret) = Ok(bytes)

C1_Witness ==
    /\ Done("bytes_to_hex")
    /\ bytes = <<15, 255, 0>>
    /\ ret = <<48, 102, 102, 102, 48, 48>>
    /\ hex_to_bytes(ret) = Ok(bytes)

\* C2: hex_to_bytes returns Ok exactly for the texts of even length made of
\* characters in [0-9a-fA-F], and an error for every other text.
C2_ErrorIffNotHex ==
    Done("hex_to_bytes") =>
        IF IsHexText(text) THEN ret.tag = "Ok" ELSE ret.tag = "Err"

\* C3: hex_to_bytes and hex_to_string return Ok or Err for every text; no
\* text makes them panic.
C3_NeverPanics ==
    (Done("hex_to_bytes") \/ Done("hex_to_string")) => ret.tag \in {"Ok", "Err"}

\* C4: on success the result has length(text)/2 bytes, byte i is the value
\* of the two hex digits at 2i, 2i+1, and upper and lower case agree.
C4_DecodedValue ==
    (Done("hex_to_bytes") /\ ret.tag = "Ok") =>
        /\ Len(ret.val) * 2 = Len(text)
        /\ \A i \in 1..Len(ret.val) :
              /\ IsHexDigit(text[2 * i - 1])
              /\ IsHexDigit(text[2 * i])
              /\ ret.val[i] = 16 * HexValue(text[2 * i - 1]) + HexValue(text[2 * i])
        /\ hex_to_bytes(ToUpper(text)) = hex_to_bytes(ToLower(text))

\* C5: bytes_to_hex returns 2 x length(bytes) characters, all in [0-9a-f],
\* the high then the low digit of each byte in input order, zero padded.
C5_HexEncoding ==
    Done("bytes_to_hex") =>
        /\ Len(ret) = 2 * Len(bytes)
        /\ \A i \in 1..Len(bytes) :
              /\ ret[2 * i - 1] = LowerDigits[(bytes[i] \div 16) + 1]
              /\ ret[2 * i] = LowerDigits[(bytes[i] % 16) + 1]
        /\ \A j \in 1..Len(ret) : ret[j] \in (48..57) \cup (97..102)

C5_Witness ==
    /\ Done("bytes_to_hex")
    /\ bytes = <<9, 195, 255>>
    /\ ret = <<48, 57, 99, 51, 102, 102>>

\* C6: string_to_hex(s) is bytes_to_hex(string_to_bytes(s)) and decoding it
\* with hex_to_string gives Ok(s), multi-byte characters included.
C6_RoundTripText ==
    Done("string_to_hex") =>
        /\ ret = bytes_to_hex(string_to_bytes(text))
        /\ hex_to_string(ret) = Ok(text)

C6_Witness ==
    /\ Done("string_to_hex")
    /\ text = <<233, 129408>>
    /\ Len(ret) = 12
    /\ hex_to_string(ret) = Ok(text)

\* C7: hex_to_string is bytes_to_string after hex_to_bytes: a hex error is
\* returned as it is and wins over invalid UTF-8; decodable hex of bytes
\* that are not UTF-8 gives the invalid-UTF-8 error.
C7_ErrorOrder ==
    Done("hex_to_string") =>
        LET hb == hex_to_bytes(text)
        IN  /\ hb.tag = "Err" =>
                  /\ ret = hb
                  /\ ret.err # ErrInvalidUtf8
            /\ hb.tag = "Ok" => ret = bytes_to_string(hb.val)
            /\ (hb.tag = "Ok" /\ from_utf8(hb.val).tag = "Err") =>
                  ret = Err(ErrInvalidUtf8)

\* 'ffg0': the first chunk is the byte ff (never valid UTF-8), the second
\* chunk is not hex
C7_Witness ==
    /\ Done("hex_to_string")
    /\ text = <<102, 102, 103, 48>>
    /\ ret.tag = "Err"
    /\ ret.err # ErrInvalidUtf8

(***************************************************************************)
(* Properties of the string utilities.                                     *)
(***************************************************************************)
\* positions after which a piece starts: 0 and the position of every comma
PieceStarts(s) == {0} \cup {i \in 1..Len(s) : s[i] = 44}

\* the k-th of them, in increasing order
NthStart(s, k) ==
    CHOOSE a \in PieceStarts(s) : Cardinality({x \in PieceStarts(s) : x < a}) = k - 1

\* the comma-free stretch of s that starts after position a
PieceAfter(s, a) ==
    LET ends == {j \in (a + 1)..(Len(s) + 1) : j = Len(s) + 1 \/ s[j] = 44}
        e == CHOOSE j \in ends : \A x \in ends : j <= x
    IN  SubSeq(s, a + 1, e - 1)

\* piece without its leading and trailing whitespace
Trimmed(piece) ==
    LET ink == {i \in 1..Len(piece) : ~IsWhitespace(piece[i])}
    IN  IF ink = {} THEN <<>>
        ELSE SubSeq(piece, CHOOSE i \in ink : \A x \in ink : i <= x,
                           CHOOSE i \in ink : \A x \in ink : i >= x)

ExpectedPieces(s) ==
    SelectSeq([k \in 1..Cardinality(PieceStarts(s)) |->
                  Trimmed(PieceAfter(s, NthStart(s, k)))], NonEmpty)

\* C8: to_array returns, in order, the trimmed comma-separated pieces that
\* are not empty after trimming; no element is empty, holds a comma or
\* starts or ends with whitespace; only commas and whitespace give <<>>.
C8_ToArray ==
    Done("to_array") =>
        /\ ret = ExpectedPieces(text)
        /\ \A k \in 1..Len(ret) :
              /\ ret[k] # <<>>
              /\ \A i \in 1..Len(ret[k]) : ret[k][i] # 44
              /\ ~IsWhitespace(ret[k][1])
              /\ ~IsWhitespace(ret[k][Len(ret[k])])
        /\ (\A i \in 1..Len(text) : text[i] = 44 \/ IsWhitespace(text[i])) => ret = <<>>

\* " a b ,,\ta" gives "a b", "a"
C8_Witness ==
    /\ Done("to_array")
    /\ text = <<97, 32, 98, 160, 44>>
    /\ ret = << <<97, 32, 98>> >>

\* number of backslashes and single quotes among the first n characters
RECURSIVE SpecialsBefore(_, _)
SpecialsBefore(s, n) ==
    IF n = 0 THEN 0
    ELSE SpecialsBefore(s, n - 1) + (IF s[n] \in {92, 39} THEN 1 ELSE 0)

\* C9: escape_sql doubles each backslash and each single quote of the input
\* and keeps every other character, in order; the output is longer than the
\* input by the number of backslashes and single quotes.
C9_EscapeSql ==
    Done("escape_sql") =>
        /\ Len(ret) = Len(text) + SpecialsBefore(text, Len(text))
        /\ \A i \in 1..Len(text) :
              LET pos == i + SpecialsBefore(text, i - 1)
              IN  /\ ret[pos] = text[i]
                  /\ text[i] \in {92, 39} => ret[pos + 1] = text[i]

\* a\'  gives  a\\''
C9_Witness ==
    /\ Done("escape_sql")
    /\ text = <<97, 92, 39>>
    /\ ret = <<97, 92, 92, 39, 39>>

\* w occurs in s ignoring case at offset p
OccursAt(s, w, p) ==
    /\ p + Len(w) <= Len(s)
    /\ \A i \in 1..Len(w) : CaseFold(s[p + i]) = CaseFold(w[i])

\* C10: is_contain_word is true iff the literal word occurs in the source,
\* ignoring case, with a non-word character or the edge of the source just
\* before and just after the occurrence.
C10_WholeWord ==
    Done("is_contain_word") =>
        (ret <=> \E p \in 0..Len(text) :
                    /\ OccursAt(text, word, p)
                    /\ p = 0 \/ ~IsWordChar(text[p])
                    /\ p + Len(word) = Len(text) \/ ~IsWordChar(text[p + Len(word) + 1]))

(***************************************************************************)
(* Properties of the placeholder templating.                               *)
(***************************************************************************)
Token(name) == <<123, 123>> \o name \o <<125, 125>>

\* tok stands in s at offset p
StandsAt(s, tok, p) == p + Len(tok) <= Len(s) /\ SubSeq(s, p + 1, p + Len(tok)) = tok

\* the offsets a left-to-right scan without overlap finds tok at
RECURSIVE ScanFrom(_, _, _)
ScanFrom(s, tok, p) ==
    IF p + Len(tok) > Len(s) THEN {}
    ELSE IF StandsAt(s, tok, p) THEN {p} \cup ScanFrom(s, tok, p + Len(tok))
    ELSE ScanFrom(s, tok, p + 1)

\* s with the stretches of length n at the offsets occ replaced by ins
RECURSIVE Substitute(_, _, _, _, _)
Substitute(s, occ, n, ins, p) ==
    IF p >= Len(s) THEN <<>>
    ELSE IF p \in occ THEN ins \o Substitute(s, occ, n, ins, p + n)
    ELSE <<s[p + 1]>> \o Substitute(s, occ, n, ins, p + 1)

\* C11: replace_placeholder replaces exactly the occurrences of the literal
\* text {{name}} found left to right without overlap; everything outside
\* them is kept in order, and a template without occurrence is unchanged.
C11_LiteralOccurrences ==
    (Done("replace_placeholder") /\ kind = "ph") =>
        LET occ == ScanFrom(text, Token(word), 0)
        IN  /\ ret = Substitute(text, occ, Len(Token(word)),
                                ReplacementText(value, Token(word)), 0)
            /\ occ = {} => ret = text

\* '{{a a}}{{.}}{{a a}}' with the name 'a a' and the value 'v' gives 'v{{.}}v'
C11_Witness ==
    /\ Done("replace_placeholder")
    /\ kind = "ph"
    /\ word = <<97, 32, 97>>
    /\ value = <<118>>
    /\ text = Token(<<97, 32, 97>>) \o Token(<<46>>) \o Token(<<97, 32, 97>>)
    /\ ret = <<118>> \o Token(<<46>>) \o <<118>>

\* C12: what replace_placeholder puts in place of each occurrence of
\* {{name}} is the value itself, character for character, whatever
\* characters the value holds.
C12_ValueVerbatim ==
    Done("replace_placeholder") =>
        ret = Substitute(text, ScanFrom(text, Token(word), 0), Len(Token(word)), value, 0)

BraceFree(s) == \A k \in 1..Len(s) : s[k] \notin {123, 125}

Contains(s, tok) == \E p \in 0..Len(s) : StandsAt(s, tok, p)

CountOf(s, tok) == Cardinality({p \in 0..Len(s) : StandsAt(s, tok, p)})

\* the names n without braces such that {{n}} stands somewhere in s
TokenNames(s) ==
    {n \in {SubSeq(s, p, q) : p \in 1..(Len(s) + 1), q \in 0..Len(s)} :
        BraceFree(n) /\ Contains(s, Token(n))}

\* C13: when the value of one entry is the {{key}} token of another entry,
\* the returned text has that nested token replaced by the other entry's
\* value too ('Nested: {{outer}}' yields 'Nested: value').
C13_NestedReplaced ==
    Done("replace_multiple_placeholders") =>
        \A k1, k2 \in DOMAIN map :
            (/\ k1 # k2
             /\ map[k1] = Token(k2)
             /\ BraceFree(map[k2])
             /\ Contains(text, Token(k1))) => ~Contains(ret, Token(k2))

\* the tokens of the template whose name is no key are all in the output
UnknownTokensKept ==
    /\ \A n \in TokenNames(text) :
          n \notin DOMAIN map => CountOf(ret, Token(n)) >= CountOf(text, Token(n))
    /\ DOMAIN map = {} => ret = text

C19_OrderIndependent ==
    (/\ Done("replace_multiple_placeholders")
     /\ \A k1, k2 \in DOMAIN map : ~Contains(map[k1], Token(k2))) =>
        \A o \in Orders(map) : replace_multiple_placeholders(text, map, o) = ret

(***************************************************************************)
(* Properties of the vector helpers.                                       *)
(***************************************************************************)
NoDuplicates(v) == \A i, j \in 1..Len(v) : i # j => v[i] # v[j]

Values(v) == {v[i] : i \in 1..Len(v)}

Occurrences(v, e) == Cardinality({i \in 1..Len(v) : v[i] = e})

RECURSIVE IsSubsequence(_, _)
IsSubsequence(r, v) ==
    IF r = <<>> THEN TRUE
    ELSE IF v = <<>> THEN FALSE
    ELSE IF Head(r) = Head(v) THEN IsSubsequence(Tail(r), Tail(v))
    ELSE IsSubsequence(r, Tail(v))

\* the elements of v that no earlier element of v equals, in their order
RECURSIVE FirstOccurrencesFrom(_, _)
FirstOccurrencesFrom(v, k) ==
    IF k > Len(v) THEN <<>>
    ELSE (IF \A j \in 1..(k - 1) : v[j] # v[k] THEN <<v[k]>> ELSE <<>>)
             \o FirstOccurrencesFrom(v, k + 1)

FirstOccurrences(v) == FirstOccurrencesFrom(v, 1)

\* C15: after dedup the vector holds exactly the first occurrence of each
\* distinct value of the original, in the original relative order: no two
\* equal elements, the same set of values, a subsequence of the original;
\* a second dedup changes nothing.
C15_DedupFirstOccurrences ==
    Done("dedup") =>
        /\ vec = FirstOccurrences(vec0)
        /\ NoDuplicates(vec)
        /\ Values(vec) = Values(vec0)
        /\ IsSubsequence(vec, vec0)
        /\ dedup(vec) = vec

\* [1,2,1,3] becomes [1,2,3]
C15_Witness ==
    /\ Done("dedup")
    /\ vec0 = <<1, 2, 1, 3>>
    /\ vec = <<1, 2, 3>>

\* C16: get_unique returns each distinct element of the input exactly once,
\* in order of first occurrence, which is the sequence dedup leaves on an
\* equal input, and the input is unchanged after the call.
C16_GetUnique ==
    Done("get_unique") =>
        /\ ret = FirstOccurrences(vec0)
        /\ \A e \in Values(vec0) : Occurrences(ret, e) = 1
        /\ Values(ret) = Values(vec0)
        /\ ret = dedup(vec0)
        /\ vec = vec0

\* [2,1,2,3] gives [2,1,3] and is still [2,1,2,3]
C16_Witness ==
    /\ Done("get_unique")
    /\ vec0 = <<2, 1, 2, 3>>
    /\ vec = <<2, 1, 2, 3>>
    /\ ret = <<2, 1, 3>>

Reversed(v) == [i \in 1..Len(v) |-> v[Len(v) + 1 - i]]

\* C17: the swap loop of reverse_in_place ends after floor(len/2) swaps (in
\* the loop the count of swaps never passes floor(len/2), every turn is one
\* more swap, and the loop can always take its next step) with the element
\* at index i equal to the original element at index len-1-i, the length
\* and the multiset of elements unchanged; a second reverse_in_place
\* restores the original vector.
C17_ReverseInPlace ==
    /\ [](Done("reverse_in_place") =>
            /\ idx = Len(vec0) \div 2
            /\ Len(vec) = Len(vec0)
            /\ \A e \in VecElems : Occurrences(vec, e) = Occurrences(vec0, e)
            /\ calls % 2 = 1 => vec = Reversed(vec0)
            /\ calls % 2 = 0 => vec = vec0)
    /\ [](pc = "rev" =>
            /\ idx <= Len(vec0) \div 2
            /\ ENABLED (ReverseSwap \/ ReverseReturn))
    /\ [][(pc = "rev" /\ pc' = "rev") => idx' = idx + 1]_vars

\* [1,2,3] reversed once is [3,2,1] after one swap
C17_Witness ==
    /\ Done("reverse_in_place")
    /\ calls = 1
    /\ idx = 1
    /\ vec0 = <<1, 2, 3>>
    /\ vec = <<3, 2, 1>>

\* [1,2,3,3] reversed twice is [1,2,3,3] again
C17_WitnessTwice ==
    /\ Done("reverse_in_place")
    /\ calls = 2
    /\ vec0 = <<1, 2, 3, 3>>
    /\ vec = <<1, 2, 3, 3>>

\* C18: for at <= len split_at_vec returns (left, right), left the elements
\* [0, at) and right the elements [at, len) of v, so left followed by right
\* is v and left has at elements; v is unchanged; for at > len the call
\* panics with 'index out of bounds' and returns no pair.
C18_SplitAtVec ==
    Done("split_at_vec") =>
        /\ vec = vec0
        /\ at <= Len(vec0) =>
              /\ ret.tag = "Ok"
              /\ Len(ret.val) = 2
              /\ Len(ret.val[1]) = at
              /\ \A i \in 1..at : ret.val[1][i] = vec0[i]
              /\ Len(ret.val[2]) = Len(vec0) - at
              /\ \A i \in 1..(Len(vec0) - at) : ret.val[2][i] = vec0[at + i]
              /\ ret.val[1] \o ret.val[2] = vec0
        /\ at > Len(vec0) =>
              /\ ret.tag = "Panic"
              /\ ret.err = "index out of bounds"

\* [1,2,3] split at 3 gives ([1,2,3], [])
C18_Witness ==
    /\ Done("split_at_vec")
    /\ vec0 = <<1, 2, 3>>
    /\ at = 3
    /\ ret.tag = "Ok"
    /\ ret.val = <<(<<1, 2, 3>>), <<>>>>

\* [1,2] split at 3 panics
C18_WitnessPanic ==
    /\ Done("split_at_vec")
    /\ vec0 = <<1, 2>>
    /\ at = 3
    /\ ret.tag = "Panic"

(***************************************************************************)
(* Properties of the SQL quoting.                                          *)
(***************************************************************************)
\* the length of the run of c that starts at position p of s
RECURSIVE RunLen(_, _, _)
RunLen(s, p, c) == IF p > Len(s) \/ s[p] # c THEN 0 ELSE 1 + RunLen(s, p + 1, c)

\* every maximal run of c in s has an even length
EvenRuns(s, c) ==
    \A p \in 1..Len(s) :
        (s[p] = c /\ (p = 1 \/ s[p - 1] # c)) => RunLen(s, p, c) % 2 = 0

\* C20: in escape_sql(s) every maximal run of single quotes and every
\* maximal run of backslashes has even length; in
\* enclose_quotes(escape_sql(s)) the only quotes outside a doubled pair are
\* the first and the last character; distinct inputs give distinct outputs.
C20_EvenRuns ==
    Done("escape_sql") =>
        /\ EvenRuns(ret, 39)
        /\ EvenRuns(ret, 92)
        /\ LET q == enclose_quotes(ret)
           IN  /\ Len(q) = Len(ret) + 2
               /\ q[1] = 39
               /\ q[Len(q)] = 39
               /\ EvenRuns(SubSeq(q, 2, Len(q) - 1), 39)
        /\ \A t \in SqlTexts :
              t # text => /\ escape_sql(t) # ret
                          /\ enclose_quotes(escape_sql(t)) # enclose_quotes(ret)

\* '\'  gives  ''\\''
C20_Witness ==
    /\ Done("escape_sql")
    /\ text = <<39, 92, 39>>
    /\ ret = <<39, 39, 92, 92, 39, 39>>

====
